---------------------------- MODULE Spec2Model ----------------------------
(***************************************************************************)
(* RosMsgParser::MessageDefinitionCache                                    *)
(* (src/src/ros_utils/message_definition_cache.cpp).                       *)
(*                                                                         *)
(* A std::string is a sequence of one-character strings, so that the       *)
(* regular expressions, the "---" split, the suffix searches and the       *)
(* concatenation of get_full_text are computed character by character.     *)
(***************************************************************************)
EXTENDS Integers, Sequences, FiniteSets, TLC

(***************************************************************************)
(* Characters.                                                             *)
(***************************************************************************)

\* The printable ASCII characters in code order: 32 (space) to 95 (_), and
\* 97 (a) to 126 (~).
AsciiLow ==
  << " ", "!", "\"", "#", "$", "%", "&", "'", "(", ")", "*", "+", ",", "-",
     ".", "/", "0", "1", "2", "3", "4", "5", "6", "7", "8", "9", ":", ";",
     "<", "=", ">", "?", "@", "A", "B", "C", "D", "E", "F", "G", "H", "I",
     "J", "K", "L", "M", "N", "O", "P", "Q", "R", "S", "T", "U", "V", "W",
     "X", "Y", "Z", "[", "\\", "]", "^", "_" >>

AsciiHigh ==
  << "a", "b", "c", "d", "e", "f", "g", "h", "i", "j", "k", "l", "m", "n",
     "o", "p", "q", "r", "s", "t", "u", "v", "w", "x", "y", "z", "{", "|",
     "}", "~" >>

\* The control characters a schema file holds, with their codes.
AsciiControl ==
  [c \in {"\t", "\n", "\f", "\r"} |->
     IF c = "\t" THEN 9 ELSE IF c = "\n" THEN 10 ELSE IF c = "\f" THEN 12 ELSE 13]

\* The code of a character: what std::string's operator< compares.
CharCode ==
  [c \in {AsciiLow[i] : i \in DOMAIN AsciiLow}
         \cup {AsciiHigh[i] : i \in DOMAIN AsciiHigh}
         \cup DOMAIN AsciiControl |->
     IF c \in DOMAIN AsciiControl
       THEN AsciiControl[c]
     ELSE IF \E i \in DOMAIN AsciiLow : AsciiLow[i] = c
       THEN 31 + CHOOSE i \in DOMAIN AsciiLow : AsciiLow[i] = c
     ELSE 96 + CHOOSE i \in DOMAIN AsciiHigh : AsciiHigh[i] = c]

\* [a-zA-Z0-9_] of MSG_DATATYPE_REGEX.
WordChars ==
  { "a", "b", "c", "d", "e", "f", "g", "h", "i", "j", "k", "l", "m", "n", "o",
    "p", "q", "r", "s", "t", "u", "v", "w", "x", "y", "z",
    "A", "B", "C", "D", "E", "F", "G", "H", "I", "J", "K", "L", "M", "N", "O",
    "P", "Q", "R", "S", "T", "U", "V", "W", "X", "Y", "Z",
    "0", "1", "2", "3", "4", "5", "6", "7", "8", "9", "_" }

\* [a-zA-Z0-9_/] of FIELD_TYPE_REGEX.
FieldTypeChars == WordChars \cup {"/"}

\* \s of the ECMAScript grammar, within ASCII.
WhiteSpace == {" ", "\t", "\n", "\f", "\r"}

(***************************************************************************)
(* std::string operations.                                                 *)
(***************************************************************************)

\* std::string::operator< : lexicographic on character codes.
RECURSIVE StrLess(_, _)
StrLess(a, b) ==
  IF b = <<>> THEN FALSE
  ELSE IF a = <<>> THEN TRUE
  ELSE IF Head(a) = Head(b) THEN StrLess(Tail(a), Tail(b))
  ELSE CharCode[Head(a)] < CharCode[Head(b)]

\* Whether pat occurs in s at index i (1-based).
OccursAt(s, pat, i) ==
  /\ i >= 1
  /\ i + Len(pat) - 1 <= Len(s)
  /\ \A k \in 1..Len(pat) : s[i + k - 1] = pat[k]

LeastOr0(hits) ==
  IF hits = {} THEN 0 ELSE CHOOSE i \in hits : \A j \in hits : i <= j

GreatestOr0(hits) ==
  IF hits = {} THEN 0 ELSE CHOOSE i \in hits : \A j \in hits : i >= j

\* std::string::find(pat, pos): the first index >= from where pat occurs, 0 for npos.
StrFind(s, pat, from) ==
  LeastOr0({i \in from..(Len(s) - Len(pat) + 1) : OccursAt(s, pat, i)})

\* std::string::rfind(pat): the last index where pat occurs, 0 for npos.
StrRFind(s, pat) ==
  GreatestOr0({i \in 1..(Len(s) - Len(pat) + 1) : OccursAt(s, pat, i)})

\* The first index >= i of s whose character is outside set, Len(s)+1 if none.
RECURSIVE SkipChars(_, _, _)
SkipChars(s, i, set) ==
  IF i > Len(s) \/ s[i] \notin set THEN i ELSE SkipChars(s, i + 1, set)

\* The concatenation of a sequence of strings.
RECURSIVE Concat(_)
Concat(ss) == IF ss = <<>> THEN <<>> ELSE Head(ss) \o Concat(Tail(ss))

(***************************************************************************)
(* The regular expressions.                                                *)
(***************************************************************************)

\* The indices of s holding '/'.
SlashPositions(s) == {i \in 1..Len(s) : s[i] = "/"}

IsWord(s) == s # <<>> /\ \A i \in 1..Len(s) : s[i] \in WordChars

NoMatch == [matched |-> FALSE, package |-> <<>>, type |-> <<>>]

\* The groups with the infix left in front of the type.
MatchGroupsKeepingInfix(package, infix, type, slashes) ==
  IF /\ IsWord(package)
     /\ IsWord(type)
     /\ \/ slashes = 1
        \/ slashes = 2 /\ infix \in {<<"m", "s", "g">>, <<"s", "r", "v">>, <<"a", "c", "t", "i", "o", "n">>}
    THEN [matched |-> TRUE, package |-> package,
          type |-> IF slashes = 2 THEN infix \o <<"_">> \o type ELSE type]
    ELSE NoMatch

\* The groups of a match of MSG_DATATYPE_REGEX given the string's first and
\* last '/': what is between them, if they differ, is msg, srv or action.
MatchGroups(package, infix, type, slashes) ==
  IF /\ IsWord(package)
     /\ IsWord(type)
     /\ \/ slashes = 1
        \/ slashes = 2 /\ infix \in {<<"m", "s", "g">>, <<"s", "r", "v">>, <<"a", "c", "t", "i", "o", "n">>}
    THEN [matched |-> TRUE, package |-> package, type |-> type]
    ELSE NoMatch

MatchBetween(datatype, lo, hi, slashes) ==
  MatchGroups(SubSeq(datatype, 1, lo - 1), SubSeq(datatype, lo + 1, hi - 1),
              SubSeq(datatype, hi + 1, Len(datatype)), slashes)

MatchSlashes(datatype, sl) ==
  IF Cardinality(sl) \notin {1, 2} THEN NoMatch
  ELSE MatchBetween(datatype,
                    CHOOSE i \in sl : \A j \in sl : i <= j,
                    CHOOSE i \in sl : \A j \in sl : i >= j,
                    Cardinality(sl))

\* std::regex_match(datatype, match, MSG_DATATYPE_REGEX):
\*   ^([a-zA-Z0-9_]+)/(?:msg/|srv/|action/)?([a-zA-Z0-9_]+)$
\* Neither group holds a '/', so the string has one '/' (no infix) or two with
\* msg, srv or action between them. package is match[1], type is match[2].
MSG_DATATYPE_REGEX(datatype) == MatchSlashes(datatype, SlashPositions(datatype))

NoField == [found |-> FALSE, type |-> <<>>, end |-> 0]

\* (?:^|\n) at index s: the index after the anchor, 0 if it does not match.
\* atBegin: s = 1 is the start of the searched range and no character precedes
\* it; ^ matches there and nowhere else (the regex is not multiline).
AfterAnchor(text, s, atBegin) ==
  IF atBegin /\ s = 1 THEN s
  ELSE IF s <= Len(text) /\ text[s] = "\n" THEN s + 1
  ELSE 0

\* (?:\[[^\]]*\])? at index i: the index after the first ']' that follows a
\* '[' at i, else i.
AfterBrackets(text, i, close) == IF close # 0 THEN close + 1 ELSE i

AfterArray(text, i) ==
  IF i <= Len(text) /\ text[i] = "["
    THEN AfterBrackets(text, i, StrFind(text, <<"]">>, i + 1))
    ELSE i

\* \s+ from ws to we ends the match of the type text[tb..te-1].
FieldSpace(text, tb, te, ws, we) ==
  IF we = ws THEN NoField
  ELSE [found |-> TRUE, type |-> SubSeq(text, tb, te - 1), end |-> we]

FieldArray(text, tb, te, ws) ==
  FieldSpace(text, tb, te, ws, SkipChars(text, ws, WhiteSpace))

FieldToken(text, tb, te) ==
  IF te = tb THEN NoField ELSE FieldArray(text, tb, te, AfterArray(text, te))

FieldStart(text, tb) == FieldToken(text, tb, SkipChars(text, tb, FieldTypeChars))

FieldAnchored(text, a) ==
  IF a = 0 THEN NoField ELSE FieldStart(text, SkipChars(text, a, WhiteSpace))

\* FIELD_TYPE_REGEX tried at index s of text:
\*   (?:^|\n)\s*([a-zA-Z0-9_/]+)(?:\[[^\]]*\])?\s+
\* The quantifiers are greedy and no shorter choice can succeed: \s* and the
\* type take their maximal runs, the bracket group ends at the first ']'.
\* type is the captured group, end the index after the match.
FieldTypeAt(text, s, atBegin) == FieldAnchored(text, AfterAnchor(text, s, atBegin))

\* std::regex_search from index `from`: the leftmost match.
FirstFound(m, later) == IF m.found THEN m ELSE later

RECURSIVE FieldTypeSearch(_, _, _)
FieldTypeSearch(text, from, atBegin) ==
  IF from > Len(text) THEN NoField
  ELSE FirstFound(FieldTypeAt(text, from, atBegin),
                  FieldTypeSearch(text, from + 1, atBegin))

PRIMITIVE_TYPES ==
  { <<"b", "o", "o", "l">>, <<"b", "y", "t", "e">>, <<"c", "h", "a", "r">>, <<"f", "l", "o", "a", "t", "3", "2">>, <<"f", "l", "o", "a", "t", "6", "4">>, <<"i", "n", "t", "8">>, <<"u", "i", "n", "t", "8">>,
    <<"i", "n", "t", "1", "6">>, <<"u", "i", "n", "t", "1", "6">>, <<"i", "n", "t", "3", "2">>, <<"u", "i", "n", "t", "3", "2">>, <<"i", "n", "t", "6", "4">>, <<"u", "i", "n", "t", "6", "4">>, <<"s", "t", "r", "i", "n", "g">> }

(***************************************************************************)
(* parse_dependencies and MessageSpec.                                     *)
(***************************************************************************)

\* The type inserted as it is written, without the package context.
AddDependencyVerbatim(dependencies, type, package_context) ==
  IF type \in PRIMITIVE_TYPES THEN dependencies ELSE dependencies \cup {type}

\* One turn of the loop body of parse_dependencies on the matched type.
AddDependency(dependencies, type, package_context) ==
  IF type \in PRIMITIVE_TYPES THEN dependencies
  ELSE IF StrFind(type, <<"/">>, 1) = 0
    THEN dependencies \cup {package_context \o <<"/">> \o type}
  ELSE dependencies \cup {type}

\* The std::sregex_iterator loop: every later search starts where the last
\* match ended, with match_prev_avail set (so ^ no longer matches).
RECURSIVE ParseFrom(_, _, _, _, _)
ParseMatch(text, m, package_context, dependencies) ==
  IF ~m.found THEN dependencies
  ELSE ParseFrom(text, m.end, FALSE, package_context,
                 AddDependency(dependencies, m.type, package_context))

ParseFrom(text, from, atBegin, package_context, dependencies) ==
  ParseMatch(text, FieldTypeSearch(text, from, atBegin), package_context,
             dependencies)

parse_dependencies(text, package_context) ==
  ParseFrom(text, 1, TRUE, package_context, {})

\* MessageSpec::MessageSpec: dependencies is initialised from text before text
\* is moved into the member.
MessageSpec(text, package_context) ==
  [text |-> text, dependencies |-> parse_dependencies(text, package_context)]

(***************************************************************************)
(* The file system and the package index.                                  *)
(***************************************************************************)

VARIABLES
  files,                   \* path -> contents of every file that exists
  installed,               \* the packages the ament index knows
  msg_specs_by_datatype_,  \* the cache: datatype -> MessageSpec
  pc,                      \* "idle", "running", "returned" or "threw"
  call,                    \* the running or last call: [op, datatype]
  error,                   \* what the last call threw, "none" otherwise
  returned,                \* what the last call returned
  result,                  \* get_full_text: std::string result
  seen_deps,               \* get_full_text: std::unordered_set seen_deps
  stack,                   \* get_full_text: the frames of append_recursive
  visits,                  \* the datatypes append_recursive was entered with, in order
  lookups,                 \* package lookups made by the running or last call
  reads,                   \* datatype -> files read for it since construction
  full_texts,              \* root -> the document get_full_text last returned for it
  calls,                   \* calls made since construction
  other                    \* a second caller's load_message_spec: [at, datatype, loc]

vars ==
  << files, installed, msg_specs_by_datatype_, pc, call, error, returned,
     result, seen_deps, stack, visits, lookups, reads, full_texts, calls,
     other >>

\* ament_index_cpp::get_package_share_directory of an installed package.
ShareDir(package) == <<"/", "s", "h", "a", "r", "e", "/">> \o package

ClosedFile == [is_open |-> FALSE, rest |-> <<>>]

\* std::ifstream{path} and std::ifstream::open(path).
OpenFile(fs, path) ==
  IF path \in DOMAIN fs THEN [is_open |-> TRUE, rest |-> fs[path]] ELSE ClosedFile

delimiter == <<"-", "-", "-">>

\* The while loop that cuts content at every "---", and the last push_back.
\* pos is the 1-based index of the C++ pos, found that of the C++ found (0 for
\* npos).
RECURSIVE SplitParts(_, _)
SplitAt(content, pos, found) ==
  IF found = 0 THEN << SubSeq(content, pos, Len(content)) >>
  ELSE << SubSeq(content, pos, found - 1) >>
         \o SplitParts(content, found + Len(delimiter))

SplitParts(content, pos) == SplitAt(content, pos, StrFind(content, delimiter, pos))

\* The file name without the selector: the part of the type before its first
\* '_' (pos, 0 for npos), the type itself if it has none.
KeepBefore(type, pos) == IF pos # 0 THEN SubSeq(type, 1, pos - 1) ELSE type

FileNameOf(type) == KeepBefore(type, StrFind(type, <<"_">>, 1))

\* The sections of _Result and _Feedback exchanged.
ActionSectionExchanged(type, parts) ==
  IF StrRFind(type, <<"_", "G", "o", "a", "l">>) # 0 THEN parts[1]
  ELSE IF StrRFind(type, <<"_", "R", "e", "s", "u", "l", "t">>) # 0 THEN parts[3]
  ELSE IF StrRFind(type, <<"_", "F", "e", "e", "d", "b", "a", "c", "k">>) # 0 THEN parts[2]
  ELSE <<>>

\* The section of an action file that the type's suffix selects; contents
\* stays "" when no branch is taken.
ActionSection(type, parts) ==
  IF StrRFind(type, <<"_", "G", "o", "a", "l">>) # 0 THEN parts[1]
  ELSE IF StrRFind(type, <<"_", "R", "e", "s", "u", "l", "t">>) # 0 THEN parts[2]
  ELSE IF StrRFind(type, <<"_", "F", "e", "e", "d", "b", "a", "c", "k">>) # 0 THEN parts[3]
  ELSE <<>>

\* The section of a service file that the type's suffix selects; contents
\* stays "" when no branch is taken.
ServiceSection(type, parts) ==
  IF StrRFind(type, <<"_", "R", "e", "q", "u", "e", "s", "t">>) # 0 THEN parts[1]
  ELSE IF StrRFind(type, <<"_", "R", "e", "s", "u", "l", "t">>) # 0 THEN parts[2]
  ELSE <<>>

\* if (contents.empty()) contents.assign(istreambuf_iterator(file), {}):
\* what is left unread of the open file.
FinalContents(contents, file) == IF contents = <<>> THEN file.rest ELSE contents

Thrown(what, nlookups) ==
  [error |-> what, contents |-> <<>>, package |-> <<>>, lookups |-> nlookups,
   read |-> FALSE]

Located(contents, package) ==
  [error |-> "none", contents |-> contents, package |-> package, lookups |-> 1,
   read |-> TRUE]

\* A container file after buffer << file.rdbuf(): open, with nothing left to read.
Drained == [is_open |-> TRUE, rest |-> <<>>]

\* The service file taken as it comes: a missing second part is empty, parts
\* beyond the second are dropped.
ServiceContentsTruncating(type, package, parts) ==
  Located(FinalContents(ServiceSection(type, <<parts[1], IF Len(parts) >= 2 THEN parts[2] ELSE <<>> >>), Drained), package)

\* The service file is parsed: two parts or an exception.
ServiceContents(type, package, parts) ==
  IF Len(parts) # 2 THEN Thrown("MalformedService", 1)
  ELSE Located(FinalContents(ServiceSection(type, parts), Drained), package)

\* The action file is parsed: three parts or an exception.
ActionContents(type, package, parts) ==
  IF Len(parts) # 3 THEN Thrown("MalformedAction", 1)
  ELSE Located(FinalContents(ActionSection(type, parts), Drained), package)

\* The container files tried before the message files.
ContentsOfContainersFirst(type, package, msg_file, srv_msg_file, srv_file, action_file) ==
  IF srv_file.is_open THEN ServiceContents(type, package, SplitParts(srv_file.rest, 1))
  ELSE IF action_file.is_open
    THEN ActionContents(type, package, SplitParts(action_file.rest, 1))
  ELSE IF msg_file.is_open THEN Located(FinalContents(<<>>, msg_file), package)
  ELSE IF srv_msg_file.is_open THEN Located(FinalContents(<<>>, srv_msg_file), package)
  ELSE Thrown("NotFound", 1)

\* The four files in the order the code tries them; each is a stream as
\* OpenFile leaves it.
ContentsOf(type, package, msg_file, srv_msg_file, srv_file, action_file) ==
  IF msg_file.is_open THEN Located(FinalContents(<<>>, msg_file), package)
  ELSE IF srv_msg_file.is_open THEN Located(FinalContents(<<>>, srv_msg_file), package)
  ELSE IF srv_file.is_open THEN ServiceContents(type, package, SplitParts(srv_file.rest, 1))
  ELSE IF action_file.is_open
    THEN ActionContents(type, package, SplitParts(action_file.rest, 1))
  ELSE Thrown("NotFound", 1)

OpenCandidates(fs, share_dir, package, type, file_name) ==
  ContentsOf(type, package,
             OpenFile(fs, share_dir \o <<"/", "m", "s", "g", "/">> \o type \o <<".", "m", "s", "g">>),
             OpenFile(fs, share_dir \o <<"/", "s", "r", "v", "/">> \o type \o <<".", "m", "s", "g">>),
             OpenFile(fs, share_dir \o <<"/", "s", "r", "v", "/">> \o file_name \o <<".", "s", "r", "v">>),
             OpenFile(fs, share_dir \o <<"/", "a", "c", "t", "i", "o", "n", "/">> \o file_name \o <<".", "a", "c", "t", "i", "o", "n">>))

\* The package looked up before the match is tested.
LocateMatchAfterLookup(fs, inst, match) ==
  IF match.package \notin inst THEN Thrown("PackageNotFound", 1)
  ELSE IF ~match.matched THEN Thrown("InvalidName", 1)
  ELSE OpenCandidates(fs, ShareDir(match.package), match.package, match.type,
                      FileNameOf(match.type))

\* get_package_share_directory throws for a package that is not installed.
LocateMatch(fs, inst, match) ==
  IF ~match.matched THEN Thrown("InvalidName", 0)
  ELSE IF match.package \notin inst THEN Thrown("PackageNotFound", 1)
  ELSE OpenCandidates(fs, ShareDir(match.package), match.package, match.type,
                      FileNameOf(match.type))

\* load_message_spec after the cache miss, up to the contents that are
\* handed to MessageSpec: the regex, the package lookup, the four files tried
\* in turn.
LocateContents(fs, inst, datatype) ==
  LocateMatch(fs, inst, MSG_DATATYPE_REGEX(datatype))

\* The lookup that never finds.
CacheFindNothing(cache, datatype) == FALSE

\* msg_specs_by_datatype_.find(datatype) != end().
CacheFind(cache, datatype) == datatype \in DOMAIN cache

\* The map emptied before the insertion.
EmplaceAlone(cache, datatype, spec) == (datatype :> spec)

\* msg_specs_by_datatype_.emplace(datatype, spec): no effect on a present key.
Emplace(cache, datatype, spec) ==
  IF datatype \in DOMAIN cache THEN cache ELSE cache @@ (datatype :> spec)

NoSpec == [text |-> <<>>, dependencies |-> {}]

\* An entry inserted before the file is located and left in place by the throw.
CacheWithPlaceholder(cache, datatype) == cache @@ (datatype :> NoSpec)

\* The cache after load_message_spec has thrown: every throw comes before
\* the emplace.
CacheAfterThrow(cache, datatype) == cache

\* The miss that remembers a failure: the datatype that did not resolve is
\* entered in the cache with an empty schema.
LoadMissRemembering(cache, datatype, loc, emplaced) ==
  IF loc.error # "none"
    THEN [error |-> loc.error, spec |-> NoSpec,
          cache |-> cache @@ (datatype :> NoSpec),
          lookups |-> loc.lookups, read |-> FALSE]
    ELSE [error |-> "none", spec |-> emplaced[datatype], cache |-> emplaced,
          lookups |-> loc.lookups, read |-> loc.read]

\* load_message_spec from the miss on: the exception, or the emplace and the
\* reference to the new entry.
LoadMiss(cache, datatype, loc, emplaced) ==
  IF loc.error # "none"
    THEN [error |-> loc.error, spec |-> NoSpec,
          cache |-> CacheAfterThrow(cache, datatype),
          lookups |-> loc.lookups, read |-> FALSE]
    ELSE [error |-> "none", spec |-> emplaced[datatype], cache |-> emplaced,
          lookups |-> loc.lookups, read |-> loc.read]

LoadLocated(cache, datatype, loc) ==
  LoadMiss(cache, datatype, loc,
           Emplace(cache, datatype, MessageSpec(loc.contents, loc.package)))

\* load_message_spec(datatype) on the cache: what it throws or returns, the
\* cache it leaves, the package lookups it made and whether it read a file.
load_message_spec(cache, fs, inst, datatype) ==
  IF CacheFind(cache, datatype)
    THEN [error |-> "none", spec |-> cache[datatype], cache |-> cache,
          lookups |-> 0, read |-> FALSE]
    ELSE LoadLocated(cache, datatype, LocateContents(fs, inst, datatype))

(***************************************************************************)
(* get_full_text.                                                          *)
(***************************************************************************)

SeparatorWidth == 80

\* The separator without the newline that ends the text before it.
SeparatorAtLineStart == [i \in 1..SeparatorWidth |-> "="] \o <<"\n", "M", "S", "G", ":", " ">>

\* "\n====...====\nMSG: " : a newline, 80 '=' characters, a newline, "MSG: ".
Separator ==
  <<"\n">> \o [i \in 1..SeparatorWidth |-> "="] \o <<"\n", "M", "S", "G", ":", " ">>

\* The header without the test of result.empty().
HeaderAlways(res, datatype) == Separator \o datatype \o <<"\n">>

\* What append_recursive appends before the text of datatype.
Header(res, datatype) ==
  IF res # <<>> THEN Separator \o datatype \o <<"\n">> ELSE <<>>

\* seen_deps left empty at the start.
InitialSeenEmpty(root_datatype) == {}

\* std::unordered_set<std::string> seen_deps = { root_datatype }.
InitialSeen(root_datatype) == {root_datatype}

\* The recursion without the test of inserted.
InsertedAlways(seen, dep) == TRUE

\* The test of inserted negated.
InsertedNegated(seen, dep) == dep \in seen

\* bool inserted = seen_deps.insert(dep).second.
Inserted(seen, dep) == dep \notin seen

\* The elements in ascending order, those with a cache entry last: an order
\* that depends on what earlier calls left in the cache.
RECURSIVE Ascending(_)
Ascending(set) ==
  IF set = {} THEN <<>>
  ELSE LET least == CHOOSE a \in set : \A b \in set \ {a} : StrLess(a, b)
       IN  <<least>> \o Ascending(set \ {least})

SortedSeqCachedLast(set) ==
  Ascending(set \ DOMAIN msg_specs_by_datatype_)
    \o Ascending(set \cap DOMAIN msg_specs_by_datatype_)

\* The order in which a std::set<std::string> is iterated.
RECURSIVE SortedSeq(_)
LeastFirst(set, least) == <<least>> \o SortedSeq(set \ {least})

SortedSeq(set) ==
  IF set = {} THEN <<>>
  ELSE LeastFirst(set, CHOOSE a \in set : \A b \in set \ {a} : StrLess(a, b))

\* A frame of append_recursive: at "entry" it has yet to call load_message_spec;
\* at "loop" it stands before element `it` of spec.dependencies, where spec
\* refers to the cache entry of datatype.
EntryFrame(datatype) == [datatype |-> datatype, at |-> "entry", it |-> 0]

Top == stack[Len(stack)]

\* The exception swallowed: the failed visit is dropped and the walk goes on.
UnwindSkipping(what, frames, res) ==
  IF Len(frames) = 1
    THEN [pc |-> "threw", error |-> what, stack |-> <<>>, result |-> <<>>]
    ELSE [pc |-> "running", error |-> "none",
          stack |-> SubSeq(frames, 1, Len(frames) - 1), result |-> res]

\* What an exception leaving append_recursive does to the call: the frames
\* are unwound, result is destroyed, get_full_text throws.
Unwind(what, frames, res) ==
  [pc |-> "threw", error |-> what, stack |-> <<>>, result |-> <<>>]

MaxCalls == 2

Idle == pc # "running" /\ calls < MaxCalls

\* The datatype strings callers ask for.
Requests ==
  { <<"p", "/", "A">>, <<"p", "/", "B">>, <<"p", "/", "m", "s", "g", "/", "A">>, <<"p", "/", "Z">>, <<"A">>,
    <<"p", "/", "S", "_", "R", "e", "q", "u", "e", "s", "t">>, <<"p", "/", "S", "_", "R", "e", "s", "p", "o", "n", "s", "e">>, <<"p", "/", "S", "_", "R", "e", "s", "u", "l", "t">>,
    <<"p", "/", "N", "_", "F", "e", "e", "d", "b", "a", "c", "k">>, <<"p", "/", "M", "_", "R", "e", "q", "u", "e", "s", "t">> }

CountRead(r, datatype) ==
  IF ~r.read THEN reads
  ELSE IF datatype \in DOMAIN reads
    THEN [reads EXCEPT ![datatype] = @ + 1]
  ELSE reads @@ (datatype :> 1)

LoadReturns(datatype, r) ==
  /\ msg_specs_by_datatype_' = r.cache
  /\ pc' = IF r.error = "none" THEN "returned" ELSE "threw"
  /\ error' = r.error
  /\ returned' = [spec |-> r.spec, text |-> <<>>]
  /\ lookups' = r.lookups
  /\ reads' = CountRead(r, datatype)

\* A caller's load_message_spec(datatype).
LoadMessageSpec(datatype) ==
  /\ Idle
  /\ LoadReturns(datatype,
                 load_message_spec(msg_specs_by_datatype_, files, installed, datatype))
  /\ call' = [op |-> "load_message_spec", datatype |-> datatype]
  /\ calls' = calls + 1
  /\ visits' = <<>>
  /\ UNCHANGED <<other, files, installed, result, seen_deps, stack, full_texts>>

\* get_full_text(root_datatype) up to the call of append_recursive(root_datatype).
GetFullText(root_datatype) ==
  /\ Idle
  /\ pc' = "running"
  /\ call' = [op |-> "get_full_text", datatype |-> root_datatype]
  /\ error' = "none"
  /\ returned' = [spec |-> NoSpec, text |-> <<>>]
  /\ result' = <<>>
  /\ seen_deps' = InitialSeen(root_datatype)
  /\ stack' = << EntryFrame(root_datatype) >>
  /\ visits' = <<>>
  /\ lookups' = 0
  /\ calls' = calls + 1
  /\ UNCHANGED <<other, files, installed, msg_specs_by_datatype_, reads, full_texts>>

\* append_recursive after load_message_spec: the exception unwinds the call
\* (u), or the separator, the header and the text are appended.
Appended(datatype, r, u) ==
  /\ msg_specs_by_datatype_' = r.cache
  /\ lookups' = lookups + r.lookups
  /\ reads' = CountRead(r, datatype)
  /\ visits' = Append(visits, datatype)
  /\ IF r.error # "none"
       THEN /\ pc' = u.pc
            /\ error' = u.error
            /\ stack' = u.stack
            /\ result' = u.result
       ELSE /\ pc' = pc
            /\ error' = error
            /\ stack' = [stack EXCEPT ![Len(stack)] =
                           [datatype |-> datatype, at |-> "loop", it |-> 1]]
            /\ result' = result \o Header(result, datatype) \o r.spec.text

AppendLoaded(datatype, r) == Appended(datatype, r, Unwind(r.error, stack, result))

\* append_recursive(datatype) from its entry to the head of its loop:
\* load_message_spec, the separator and header, the text.
AppendEntry ==
  /\ pc = "running"
  /\ Top.at = "entry"
  /\ AppendLoaded(Top.datatype,
                  load_message_spec(msg_specs_by_datatype_, files, installed,
                                    Top.datatype))
  /\ UNCHANGED <<other, files, installed, call, returned, seen_deps, full_texts, calls>>

\* The dependencies the frame iterates: those of the cache entry it refers to.
FrameDeps(frame) == SortedSeq(msg_specs_by_datatype_[frame.datatype].dependencies)

Advance(dep) ==
  /\ seen_deps' = seen_deps \cup {dep}
  /\ stack' = IF Inserted(seen_deps, dep)
                THEN Append([stack EXCEPT ![Len(stack)].it = @ + 1], EntryFrame(dep))
                ELSE [stack EXCEPT ![Len(stack)].it = @ + 1]

\* One turn of the loop over spec.dependencies: the insert into seen_deps and,
\* if it inserted, the recursive call.
LoopStep ==
  /\ pc = "running"
  /\ Top.at = "loop"
  /\ Top.it <= Len(FrameDeps(Top))
  /\ Advance(FrameDeps(Top)[Top.it])
  /\ UNCHANGED <<other, files, installed, msg_specs_by_datatype_, pc, call, error,
                 returned, result, visits, lookups, reads, full_texts, calls>>

\* The loop is over: append_recursive returns to its caller, and the
\* outermost one to get_full_text, which returns result.
ReturnStep ==
  /\ pc = "running"
  /\ Top.at = "loop"
  /\ Top.it > Len(FrameDeps(Top))
  /\ stack' = SubSeq(stack, 1, Len(stack) - 1)
  /\ IF Len(stack) = 1
       THEN /\ pc' = "returned"
            /\ returned' = [spec |-> NoSpec, text |-> result]
            /\ result' = <<>>
            /\ full_texts' = (call.datatype :> result) @@ full_texts
       ELSE UNCHANGED <<pc, returned, result, full_texts>>
  /\ UNCHANGED <<other, files, installed, msg_specs_by_datatype_, call, error,
                 seen_deps, visits, lookups, reads, calls>>

(***************************************************************************)
(* The schema files of the checked configurations.                         *)
(***************************************************************************)

MsgPath(package, type) == ShareDir(package) \o <<"/", "m", "s", "g", "/">> \o type \o <<".", "m", "s", "g">>
SrvPath(package, name) == ShareDir(package) \o <<"/", "s", "r", "v", "/">> \o name \o <<".", "s", "r", "v">>
ActionPath(package, name) == ShareDir(package) \o <<"/", "a", "c", "t", "i", "o", "n", "/">> \o name \o <<".", "a", "c", "t", "i", "o", "n">>

\* A diamond: A -> B, C; B -> D; C -> D.
DiamondFiles ==
  (MsgPath(<<"p">>, <<"A">>) :> <<"B", " ", "b", "\n", "C", " ", "c", "\n">>) @@
  (MsgPath(<<"p">>, <<"B">>) :> <<"D", " ", "d", "\n">>) @@
  (MsgPath(<<"p">>, <<"C">>) :> <<"p", "/", "D", "[", "]", " ", "d", "s", "\n", "i", "n", "t", "3", "2", " ", "n", "\n">>) @@
  (MsgPath(<<"p">>, <<"D">>) :> <<"f", "l", "o", "a", "t", "6", "4", " ", "x", "\n">>)

\* A cycle: A -> B -> A.
CycleFiles ==
  (MsgPath(<<"p">>, <<"A">>) :> <<"B", " ", "b", "\n">>) @@
  (MsgPath(<<"p">>, <<"B">>) :> <<"A", " ", "a", "\n">>)

\* A schema that depends on itself, and on B under its infixed name.
SelfFiles ==
  (MsgPath(<<"p">>, <<"A">>) :> <<"A", "[", "]", " ", "k", "i", "d", "s", "\n", "p", "/", "m", "s", "g", "/", "B", " ", "b", "\n">>) @@
  (MsgPath(<<"p">>, <<"B">>) :> <<"p", "/", "A", " ", "a", "\n", "s", "t", "r", "i", "n", "g", " ", "s", "\n">>)

\* Dependencies that do not resolve: q is not installed.
BrokenFiles ==
  (MsgPath(<<"p">>, <<"A">>) :> <<"B", " ", "b", "\n", "q", "/", "X", " ", "x", "\n">>) @@
  (MsgPath(<<"p">>, <<"B">>) :> <<"i", "n", "t", "3", "2", " ", "n", "\n">>)

\* An empty schema, as a root and as a dependency.
EmptyFiles ==
  (MsgPath(<<"p">>, <<"A">>) :> <<>>) @@
  (MsgPath(<<"p">>, <<"B">>) :> <<"A", " ", "a", "\n">>)

\* A service, an action and a service file without delimiter; B refers to
\* the three schemas of the action.
ContainerFiles ==
  (MsgPath(<<"p">>, <<"A">>) :> <<"i", "n", "t", "3", "2", " ", "n", "\n">>) @@
  (MsgPath(<<"p">>, <<"B">>) :> <<"N", "_", "G", "o", "a", "l", " ", "g", "\n", "N", "_", "R", "e", "s", "u", "l", "t", " ", "r", "\n", "N", "_", "F", "e", "e", "d", "b", "a", "c", "k", " ", "f", "\n">>) @@
  (SrvPath(<<"p">>, <<"S">>) :> <<"A", " ", "a", "\n", "-", "-", "-", "\n", "b", "o", "o", "l", " ", "o", "k", "\n">>) @@
  (ActionPath(<<"p">>, <<"N">>) :> <<"A", " ", "g", "\n", "-", "-", "-", "\n", "b", "o", "o", "l", " ", "r", "\n", "-", "-", "-", "\n", "i", "n", "t", "8", " ", "f", "\n">>) @@
  (SrvPath(<<"p">>, <<"M">>) :> <<"i", "n", "t", "3", "2", " ", "a", "\n">>)

\* The body of a message with one field per type of ts, of a primitive type if
\* ts is empty.
Body(ts) ==
  IF ts = <<>> THEN <<"i", "n", "t", "3", "2", " ", "n", "\n">>
  ELSE Concat([i \in DOMAIN ts |-> ts[i] \o <<" ", "v", "\n">>])

\* The dependency graphs on A, B and C in which A refers to B: chains,
\* triangles, cycles through the root, cycles below it, self references.
GraphFiles(a, b, c) ==
  (MsgPath(<<"p">>, <<"A">>) :> Body(a)) @@
  (MsgPath(<<"p">>, <<"B">>) :> Body(b)) @@
  (MsgPath(<<"p">>, <<"C">>) :> Body(c))

Graphs ==
  { GraphFiles(a, b, c) :
      a \in {<<<<"B">>>>, <<<<"B">>, <<"C">>>>},
      b \in {<<>>, <<<<"A">>>>, <<<<"C">>>>, <<<<"A">>, <<"C">>>>},
      c \in {<<>>, <<<<"A">>>>, <<<<"B">>>>, <<<<"C">>>>} }

FileSystems ==
  {DiamondFiles, CycleFiles, SelfFiles, BrokenFiles, EmptyFiles, ContainerFiles}
    \cup Graphs

\* No second caller is inside load_message_spec.
NoOther == [at |-> "idle", datatype |-> <<>>, loc |-> Thrown("none", 0)]

Init ==
  /\ other = NoOther
  /\ files \in FileSystems
  /\ installed = {<<"p">>}
  /\ msg_specs_by_datatype_ = <<>>
  /\ pc = "idle"
  /\ call = [op |-> "none", datatype |-> <<>>]
  /\ error = "none"
  /\ returned = [spec |-> NoSpec, text |-> <<>>]
  /\ result = <<>>
  /\ seen_deps = {}
  /\ stack = <<>>
  /\ visits = <<>>
  /\ lookups = 0
  /\ reads = <<>>
  /\ full_texts = <<>>
  /\ calls = 0

Next ==
  \/ \E datatype \in Requests : LoadMessageSpec(datatype)
  \/ \E root_datatype \in Requests : GetFullText(root_datatype)
  \/ AppendEntry
  \/ LoopStep
  \/ ReturnStep

Spec == Init /\ [][Next]_vars

(***************************************************************************)
(* What the properties below read of a state.                              *)
(***************************************************************************)

\* get_full_text has returned its document for call.datatype.
FullTextReturned == pc = "returned" /\ call.op = "get_full_text"

\* The number of places where pat occurs in s.
Occurrences(s, pat) == Cardinality({i \in 1..Len(s) : OccursAt(s, pat, i)})

\* The number of entries of seq equal to x.
Count(seq, x) == Cardinality({i \in DOMAIN seq : seq[i] = x})

\* The line of 80 '=' characters, as a reader of the document expects it.
Rule == [i \in 1..80 |-> "="]

\* The header line of a block: "MSG: <datatype>" and its newline.
MsgLine(datatype) == <<"M", "S", "G", ":", " ">> \o datatype \o <<"\n">>

\* A newline, the rule and the header line: what precedes a block's text.
BlockHead(datatype) == <<"\n">> \o Rule \o <<"\n">> \o MsgLine(datatype)

\* Every datatype name the state knows.
KnownDatatypes ==
  Requests \cup DOMAIN msg_specs_by_datatype_
    \cup UNION {msg_specs_by_datatype_[d].dependencies : d \in DOMAIN msg_specs_by_datatype_}

\* The dependencies recorded for d, none if d is not cached.
DepsOf(d) ==
  IF d \in DOMAIN msg_specs_by_datatype_
    THEN msg_specs_by_datatype_[d].dependencies
    ELSE {}

\* The datatypes reachable from root through recorded dependencies.
RECURSIVE ReachFrom(_, _)
ReachFrom(acc, frontier) ==
  IF frontier = {} THEN acc
  ELSE ReachFrom(acc \cup UNION {DepsOf(d) : d \in frontier},
                 (UNION {DepsOf(d) : d \in frontier}) \ acc)

Reach(root) == ReachFrom({root}, {root})

\* The names on the header lines that follow a rule in doc.
HeaderNames(doc) ==
  { SubSeq(doc, i + 87, StrFind(doc, <<"\n">>, i + 87) - 1) :
      i \in {j \in 1..Len(doc) : OccursAt(doc, <<"\n">> \o Rule \o <<"\n", "M", "S", "G", ":", " ">>, j)} }

\* Whether a is a prefix of b.
IsPrefix(a, b) == Len(a) <= Len(b) /\ SubSeq(b, 1, Len(a)) = a

(***************************************************************************)
(* C1. In the document get_full_text(root) returns, the header line         *)
(* "MSG: <d>" occurs at most once for every datatype name d, and not at all *)
(* for root, whatever the dependency graph: cycles, self references,        *)
(* diamonds.                                                               *)
(***************************************************************************)
C1_NoDuplicateBlocks ==
  FullTextReturned =>
    /\ \A d \in KnownDatatypes : Occurrences(returned.text, MsgLine(d)) <= 1
    /\ Occurrences(returned.text, MsgLine(call.datatype)) = 0

\* A document returned for a root that one of its dependencies depends on.
C1_Witness ==
  /\ FullTextReturned
  /\ \E d \in DepsOf(call.datatype) :
       /\ d # call.datatype
       /\ call.datatype \in DepsOf(d)
       /\ Occurrences(returned.text, MsgLine(d)) = 1

(***************************************************************************)
(* C2. get_full_text(root) terminates whatever the dependency graph, and   *)
(* append_recursive is entered at most once per datatype name in one call: *)
(* no name occurs twice among the entries of a call; a running call can    *)
(* always take its next step; and every step of a running call lowers      *)
(* Rank, a natural number, so that no call takes more than Rank steps.     *)
(***************************************************************************)
\* The dependencies that resolving d from the files yields, none if it fails.
ResolvedDeps(d) ==
  LET loc == LocateContents(files, installed, d)
  IN  IF loc.error = "none" THEN parse_dependencies(loc.contents, loc.package) ELSE {}

\* The datatype names a walk from root can meet, whatever is cached.
RECURSIVE FileReachFrom(_, _)
FileReachFrom(acc, frontier) ==
  IF frontier = {} THEN acc
  ELSE FileReachFrom(acc \cup UNION {ResolvedDeps(d) : d \in frontier},
                     (UNION {ResolvedDeps(d) : d \in frontier}) \ acc)

FileReach(root) == FileReachFrom({root}, {root})

\* The largest number of dependencies of a schema the walk can meet.
Fanout(root) ==
  LET sizes == {Cardinality(ResolvedDeps(d)) : d \in FileReach(root)}
  IN  CHOOSE n \in sizes : \A m \in sizes : m <= n

\* The steps a frame can still take itself: the turns of its loop and its
\* return, and before that its entry.
FrameSteps(frame, cache, fanout) ==
  IF frame.at = "entry" THEN fanout + 2
  ELSE Cardinality(cache[frame.datatype].dependencies) - frame.it + 2

RECURSIVE StackSteps(_, _, _)
StackSteps(frames, cache, fanout) ==
  IF frames = <<>> THEN 0
  ELSE FrameSteps(Head(frames), cache, fanout)
         + StackSteps(Tail(frames), cache, fanout)

\* A bound on the steps the call for call.datatype can still take when it
\* stands at (at_pc, seen, frames, cache): those of its frames, and those of a
\* frame for every name it can meet that is not yet in seen.
StepsLeft(at_pc, seen, frames, cache) ==
  IF at_pc # "running" THEN 0
  ELSE (Fanout(call.datatype) + 2) * Cardinality(FileReach(call.datatype) \ seen)
         + StackSteps(frames, cache, Fanout(call.datatype))

Rank == StepsLeft(pc, seen_deps, stack, msg_specs_by_datatype_)

\* The guards of AppendEntry, LoopStep and ReturnStep: one of them holds.
CanStep ==
  /\ stack # <<>>
  /\ \/ Top.at = "entry"
     \/ /\ Top.at = "loop"
        /\ Top.datatype \in DOMAIN msg_specs_by_datatype_
        /\ Top.it \in 1..(Len(FrameDeps(Top)) + 1)

\* C2: get_full_text terminates and enters no datatype twice: visits holds no
\* datatype twice, a running call can always step, and every step lowers Rank.
C2_Terminates ==
  /\ [](\A i, j \in DOMAIN visits : visits[i] = visits[j] => i = j)
  /\ [](pc = "running" => CanStep /\ Rank > 0)
  /\ [][pc = "running" =>
          StepsLeft(pc', seen_deps', stack', msg_specs_by_datatype_') < Rank]_vars

\* A call that returned after walking a graph with a cycle through a
\* datatype other than the root.
C2_Witness ==
  /\ FullTextReturned
  /\ Len(visits) >= 3
  /\ \E d \in Reach(call.datatype) \ {call.datatype} :
       \E e \in DepsOf(d) : d \in Reach(e) /\ e \in Reach(call.datatype)

(***************************************************************************)
(* C3. The document get_full_text(root) returns holds the root's text and   *)
(* one block, with its text, for every other datatype reachable from root, *)
(* and no block for any other datatype.                                    *)
(***************************************************************************)
C3_TransitiveClosure ==
  FullTextReturned =>
    /\ Reach(call.datatype) \subseteq DOMAIN msg_specs_by_datatype_
    /\ IsPrefix(msg_specs_by_datatype_[call.datatype].text, returned.text)
    /\ \A d \in Reach(call.datatype) \ {call.datatype} :
         Occurrences(returned.text,
                     BlockHead(d) \o msg_specs_by_datatype_[d].text) >= 1
    /\ HeaderNames(returned.text) = Reach(call.datatype) \ {call.datatype}

\* A document returned for the root of a diamond: four datatypes, the last
\* one reached through two others.
C3_Witness ==
  /\ FullTextReturned
  /\ Cardinality(Reach(call.datatype)) = 4
  /\ \E b, c \in DepsOf(call.datatype) :
       b # c /\ DepsOf(b) \cap DepsOf(c) # {} /\ call.datatype \notin DepsOf(b)

(***************************************************************************)
(* C4. The document is the root's text followed, for every further schema  *)
(* in the order of the walk, by a newline, a line of 80 '=', the line       *)
(* "MSG: <datatype>" and the schema's text, and nothing else.              *)
(***************************************************************************)
\* The texts of the schemas in order, each but the first after `before` and
\* its header line.
Rendered(order, before) ==
  Concat([i \in DOMAIN order |->
            (IF i = 1 THEN <<>> ELSE before \o MsgLine(order[i]))
              \o msg_specs_by_datatype_[order[i]].text])

\* C4, amended: each further schema follows a newline, the 80 '=', a newline,
\* "MSG: <datatype>" and a newline.
C4_DocumentStructure ==
  FullTextReturned =>
    returned.text = Rendered(visits, <<"\n">> \o Rule \o <<"\n">>)

\* The claim as stated: the rule follows the previous text directly.
C4_AsStated ==
  FullTextReturned => returned.text = Rendered(visits, Rule \o <<"\n">>)

\* A document returned for a root with exactly one dependency, which has none.
C4_Witness ==
  /\ FullTextReturned
  /\ Len(visits) = 2
  /\ DepsOf(visits[2]) = {}
  /\ returned.text =
       msg_specs_by_datatype_[visits[1]].text \o <<"\n">> \o Rule
         \o <<"\n", "M", "S", "G", ":", " ">> \o visits[2] \o <<"\n">> \o msg_specs_by_datatype_[visits[2]].text

(***************************************************************************)
(* C5. The root's text comes first in the document, no header before it;   *)
(* every other schema's text follows exactly one separator and header      *)
(* naming that schema; also when a text is empty.                          *)
(***************************************************************************)
C5_RootFirst ==
  FullTextReturned =>
    /\ IsPrefix(msg_specs_by_datatype_[call.datatype].text, returned.text)
    /\ visits[1] = call.datatype
    /\ Occurrences(returned.text, <<"\n">> \o Rule \o <<"\n", "M", "S", "G", ":", " ">>) = Len(visits) - 1
    /\ \A i \in 2..Len(visits) :
         Occurrences(returned.text,
                     BlockHead(visits[i]) \o msg_specs_by_datatype_[visits[i]].text) = 1

\* A document returned with a block whose text is empty.
C5_Witness ==
  /\ FullTextReturned
  /\ \E i \in 2..Len(visits) : msg_specs_by_datatype_[visits[i]].text = <<>>

(***************************************************************************)
(* C6. The file of a datatype string is located and read successfully at  *)
(* most once: a load_message_spec(d) that finds d cached returns the       *)
(* cached entry with no package lookup and no file read, and a             *)
(* get_full_text(root) that follows a successful one looks up and reads    *)
(* nothing and does not throw.                                             *)
(***************************************************************************)
C6_ReadOnce ==
  /\ [](\A d \in DOMAIN reads : reads[d] <= 1)
  /\ [][(/\ calls' = calls + 1
         /\ call'.op = "load_message_spec"
         /\ call'.datatype \in DOMAIN msg_specs_by_datatype_)
        => /\ pc' = "returned"
           /\ returned'.spec = msg_specs_by_datatype_[call'.datatype]
           /\ lookups' = 0
           /\ reads' = reads
           /\ msg_specs_by_datatype_' = msg_specs_by_datatype_]_vars
  /\ [][(pc = "running" /\ call.datatype \in DOMAIN full_texts)
        => /\ pc' # "threw"
           /\ lookups' = 0
           /\ reads' = reads]_vars

\* A second load_message_spec of a datatype, answered from the cache.
C6_Witness ==
  /\ calls = 2
  /\ pc = "returned"
  /\ call.op = "load_message_spec"
  /\ lookups = 0
  /\ call.datatype \in DOMAIN reads
  /\ returned.spec.text # <<>>

(***************************************************************************)
(* C7. An entry of the cache is never removed and never changes, and every *)
(* frame of append_recursive that iterates over the dependencies of an     *)
(* entry finds that entry in the cache, whatever was inserted since.       *)
(***************************************************************************)
C7_EntriesStable ==
  /\ [][\A d \in DOMAIN msg_specs_by_datatype_ :
          /\ d \in DOMAIN msg_specs_by_datatype_'
          /\ msg_specs_by_datatype_'[d] = msg_specs_by_datatype_[d]]_vars
  /\ [](\A i \in DOMAIN stack :
          stack[i].at = "loop" => stack[i].datatype \in DOMAIN msg_specs_by_datatype_)

\* The walk has inserted the entry of a dependency while the frame below is
\* still inside its loop.
C7_Witness ==
  /\ pc = "running"
  /\ Len(stack) >= 2
  /\ Top.at = "loop"
  /\ stack[1].at = "loop"
  /\ stack[1].it <= Len(FrameDeps(stack[1]))
  /\ lookups >= 2
  /\ Top.datatype \in DOMAIN reads

(***************************************************************************)
(* C8. A load_message_spec(d) that throws, called by the user or by        *)
(* append_recursive, leaves the cache as it was, without an entry for d.   *)
(***************************************************************************)
C8_FailureLeavesCache ==
  [][(pc' = "threw" /\ (calls' = calls + 1 \/ pc = "running"))
     => /\ msg_specs_by_datatype_' = msg_specs_by_datatype_
        /\ call'.op = "load_message_spec"
             => call'.datatype \notin DOMAIN msg_specs_by_datatype_'
        /\ call'.op = "get_full_text"
             => visits'[Len(visits')] \notin DOMAIN msg_specs_by_datatype_']_vars

\* load_message_spec has thrown for a service file of one section, on a cache
\* that held an entry.
C8_Witness ==
  /\ pc = "threw"
  /\ call.op = "load_message_spec"
  /\ error = "MalformedService"
  /\ DOMAIN msg_specs_by_datatype_ # {}

(***************************************************************************)
(* C9. A get_full_text(root) in which a datatype does not resolve throws   *)
(* the error of that resolution and returns nothing; one that returns has  *)
(* entered append_recursive for every datatype the files make reachable    *)
(* from root, and all of them resolve.                                     *)
(***************************************************************************)
C9_FailureAborts ==
  call.op = "get_full_text" =>
    /\ pc = "returned" =>
         \A d \in FileReach(call.datatype) :
           /\ LocateContents(files, installed, d).error = "none"
           /\ Count(visits, d) = 1
    /\ pc = "threw" =>
         /\ returned.text = <<>>
         /\ result = <<>>
         /\ stack = <<>>
         /\ error # "none"
         /\ error = LocateContents(files, installed, visits[Len(visits)]).error
         /\ visits[Len(visits)] \in FileReach(call.datatype)

\* get_full_text has thrown at its third schema, after two were appended.
C9_Witness ==
  /\ pc = "threw"
  /\ call.op = "get_full_text"
  /\ Len(visits) = 3
  /\ {visits[1], visits[2]} \subseteq DOMAIN msg_specs_by_datatype_

(***************************************************************************)
(* C10. A cached datatype whose type is base_Request, base_Result or       *)
(* base_Response and whose file is the two-section srv/base.srv has as its *)
(* text section 0 for _Request and section 1 for _Result and _Response.    *)
(***************************************************************************)
\* Whether s ends with suffix.
EndsWith(s, suffix) ==
  Len(suffix) <= Len(s) /\ SubSeq(s, Len(s) - Len(suffix) + 1, Len(s)) = suffix

\* The section of the service file that the claim gives the type m.type,
\* <<"none">> when the claim does not speak of it: the type is not base and a
\* selector, a msg file comes first, or the file has not two sections.
ClaimedServiceText(m, base, suffix) ==
  IF /\ m.matched
     /\ m.package \in installed
     /\ base # <<>>
     /\ m.type = base \o suffix
     /\ MsgPath(m.package, m.type) \notin DOMAIN files
     /\ ShareDir(m.package) \o <<"/", "s", "r", "v", "/">> \o m.type \o <<".", "m", "s", "g">> \notin DOMAIN files
     /\ SrvPath(m.package, base) \in DOMAIN files
     /\ Len(SplitParts(files[SrvPath(m.package, base)], 1)) = 2
    THEN SplitParts(files[SrvPath(m.package, base)], 1)[IF suffix = <<"_", "R", "e", "q", "u", "e", "s", "t">> THEN 1 ELSE 2]
    ELSE <<"none">>

ServiceTextAsClaimed(d, suffix) ==
  LET m == MSG_DATATYPE_REGEX(d)
      base == SubSeq(m.type, 1, Len(m.type) - Len(suffix))
      claimed == ClaimedServiceText(m, base, suffix)
  IN  EndsWith(m.type, suffix) /\ claimed # <<"none">>
        => msg_specs_by_datatype_[d].text = claimed

\* C10: every cached base_Request, base_Result and base_Response backed by a
\* two-section srv/base.srv has the text the claim gives it.
C10_ServiceSections ==
  \A d \in DOMAIN msg_specs_by_datatype_ :
    \A suffix \in {<<"_", "R", "e", "q", "u", "e", "s", "t">>, <<"_", "R", "e", "s", "u", "l", "t">>, <<"_", "R", "e", "s", "p", "o", "n", "s", "e">>} :
      ServiceTextAsClaimed(d, suffix)

(***************************************************************************)
(* The resolution of one datatype: load_message_spec over the candidate    *)
(* files of the types of base S in package p.                              *)
(***************************************************************************)

\* sections joined by the delimiter.
RECURSIVE JoinSections(_)
JoinSections(sections) ==
  IF Len(sections) = 1 THEN sections[1]
  ELSE sections[1] \o delimiter \o JoinSections(Tail(sections))

\* A service file of n sections; the first refers to p/A and to q/msg/B.
ServiceFile(n) ==
  JoinSections(SubSeq(<< <<"A", " ", "r", "\n", "q", "/", "m", "s", "g", "/", "B", "[", "]", " ", "b", "s", "\n", "u", "i", "n", "t", "8", "[", "4", "]", " ", "r", "a", "w", "\n">>, <<"\n", "b", "o", "o", "l", " ", "o", "k", "\n", "s", "t", "r", "i", "n", "g", "[", "]", " ", "l", "o", "g", "\n">>, <<"\n", "i", "n", "t", "8", " ", "x", "\n">> >>, 1, n))

\* An action file of n sections.
ActionFile(n) ==
  JoinSections(SubSeq(<< <<"A", " ", "g", "\n">>, <<"\n", "b", "o", "o", "l", " ", "r", "\n">>, <<"\n", "i", "n", "t", "8", " ", "f", "\n", "f", "l", "o", "a", "t", "3", "2", "[", "]", " ", "f", "s", "\n">>, <<"\n", "i", "n", "t", "8", " ", "z", "\n">> >>, 1, n))

\* The message file msg/S_Request.msg.
MessageFile == <<"i", "n", "t", "8", "[", "]", " ", "m", "\n", "A", " ", "a", "\n", "q", "/", "B", "[", "2", "]", " ", "b", "\n", "s", "t", "r", "i", "n", "g", " ", "s", "\n">>

\* The legacy file srv/S_Request.msg; it holds a delimiter line.
LegacyFile == <<"A", " ", "l", "\n", "-", "-", "-", "\n", "i", "n", "t", "1", "6", " ", "k", "\n">>

LegacyPath(package, type) == ShareDir(package) \o <<"/", "s", "r", "v", "/">> \o type \o <<".", "m", "s", "g">>

FilesIf(present, path, content) == IF present THEN (path :> content) ELSE <<>>

\* The candidate files for S_Request: msg and legacy file present or not, the
\* service file absent (0) or of 1 to 3 sections, the action file absent (0)
\* or of 2 to 4 sections.
CandidateFiles(msg, legacy, srv, action) ==
  FilesIf(msg, MsgPath(<<"p">>, <<"S", "_", "R", "e", "q", "u", "e", "s", "t">>), MessageFile) @@
  FilesIf(legacy, LegacyPath(<<"p">>, <<"S", "_", "R", "e", "q", "u", "e", "s", "t">>), LegacyFile) @@
  FilesIf(srv # 0, SrvPath(<<"p">>, <<"S">>), ServiceFile(srv)) @@
  FilesIf(action # 0, ActionPath(<<"p">>, <<"S">>), ActionFile(action))

ResolveFileSystems ==
  { CandidateFiles(msg, legacy, srv, action) :
      msg \in BOOLEAN, legacy \in BOOLEAN, srv \in {0, 1, 2, 3}, action \in {0, 2, 3, 4} }

\* The datatype strings resolved: the selectors of S with and without infix,
\* S itself, and strings that are no datatype name.
ResolveRequests ==
  { <<"p", "/", "S", "_", "R", "e", "q", "u", "e", "s", "t">>, <<"p", "/", "m", "s", "g", "/", "S", "_", "R", "e", "q", "u", "e", "s", "t">>, <<"p", "/", "s", "r", "v", "/", "S", "_", "R", "e", "q", "u", "e", "s", "t">>, <<"p", "/", "a", "c", "t", "i", "o", "n", "/", "S", "_", "R", "e", "q", "u", "e", "s", "t">>,
    <<"p", "/", "S", "_", "R", "e", "s", "p", "o", "n", "s", "e">>, <<"p", "/", "S", "_", "R", "e", "s", "u", "l", "t">>, <<"p", "/", "S", "_", "G", "o", "a", "l">>, <<"p", "/", "S", "_", "F", "e", "e", "d", "b", "a", "c", "k">>, <<"p", "/", "S">>,
    <<"S", "_", "R", "e", "q", "u", "e", "s", "t">>, <<"p", "/", "x", "/", "S", "_", "R", "e", "q", "u", "e", "s", "t">>, <<"p", "/", "/", "S", "_", "R", "e", "q", "u", "e", "s", "t">>, <<"p", "/", "S", "_", "R", "e", "q", "u", "e", "s", "t", " ">>, <<"p", "/", "m", "s", "g", "/", "S", "/", "x">> }

ResolveInit ==
  /\ other = NoOther
  /\ files \in ResolveFileSystems
  /\ installed = {<<"p">>}
  /\ msg_specs_by_datatype_ = <<>>
  /\ pc = "idle"
  /\ call = [op |-> "none", datatype |-> <<>>]
  /\ error = "none"
  /\ returned = [spec |-> NoSpec, text |-> <<>>]
  /\ result = <<>>
  /\ seen_deps = {}
  /\ stack = <<>>
  /\ visits = <<>>
  /\ lookups = 0
  /\ reads = <<>>
  /\ full_texts = <<>>
  /\ calls = 0

Resolve == \E datatype \in ResolveRequests : LoadMessageSpec(datatype)

ResolveSpec == ResolveInit /\ [][Resolve]_vars

(***************************************************************************)
(* What the properties of a resolution read of a datatype and the files.   *)
(***************************************************************************)

\* The type's name up to its first underscore.
BaseOf(type) ==
  IF \E i \in 1..Len(type) : type[i] = "_"
    THEN SubSeq(type, 1, (CHOOSE i \in 1..Len(type) : type[i] = "_" /\ \A j \in 1..(i - 1) : type[j] # "_") - 1)
    ELSE type

\* The four candidate files of a matched name, in the order of the search.
CandidatePaths(m) ==
  << MsgPath(m.package, m.type), LegacyPath(m.package, m.type),
     SrvPath(m.package, BaseOf(m.type)), ActionPath(m.package, BaseOf(m.type)) >>

\* The index of the first candidate that exists, 0 if none does.
FirstOf(exist) ==
  IF exist = {} THEN 0 ELSE CHOOSE i \in exist : \A j \in exist : i <= j

ExistingOf(paths) == {i \in 1..4 : paths[i] \in DOMAIN files}

FirstExisting(m) == FirstOf(ExistingOf(CandidatePaths(m)))

\* The number of sections the delimiter lines cut a file into.
SectionCount(content) == Occurrences(content, delimiter) + 1

\* load_message_spec(call.datatype) has returned or thrown.
LoadDone == call.op = "load_message_spec" /\ pc \in {"returned", "threw"}

ServiceSelectors == {<<"_", "R", "e", "q", "u", "e", "s", "t">>, <<"_", "R", "e", "s", "p", "o", "n", "s", "e">>, <<"_", "R", "e", "s", "u", "l", "t">>}
ActionSelectors == {<<"_", "G", "o", "a", "l">>, <<"_", "R", "e", "s", "u", "l", "t">>, <<"_", "F", "e", "e", "d", "b", "a", "c", "k">>}

\* C11: no cached datatype is backed by a service or action file without its
\* type ending in a selector of that kind of file: such a resolution fails and
\* caches nothing.
C11_UnrecognisedSelectorFails ==
  \A d \in DOMAIN msg_specs_by_datatype_ :
    LET m == MSG_DATATYPE_REGEX(d)
        first == FirstExisting(m)
    IN  /\ first = 3 => \E suffix \in ServiceSelectors : EndsWith(m.type, suffix)
        /\ first = 4 => \E suffix \in ActionSelectors : EndsWith(m.type, suffix)

(***************************************************************************)
(* C12. A load_message_spec that reaches a service file not of 2 sections, *)
(* or an action file not of 3 sections, throws whatever the selector is,   *)
(* and caches nothing.                                                     *)
(***************************************************************************)
C12_SectionCountChecked ==
  /\ LoadDone =>
        LET m == MSG_DATATYPE_REGEX(call.datatype)
            first == FirstExisting(m)
        IN  /\ (m.matched /\ first = 3 /\ SectionCount(files[CandidatePaths(m)[3]]) # 2)
                 => pc = "threw" /\ error = "MalformedService"
            /\ (m.matched /\ first = 4 /\ SectionCount(files[CandidatePaths(m)[4]]) # 3)
                 => pc = "threw" /\ error = "MalformedAction"
  /\ \A d \in DOMAIN msg_specs_by_datatype_ :
        LET m == MSG_DATATYPE_REGEX(d)
            first == FirstExisting(m)
        IN  /\ first = 3 => SectionCount(files[CandidatePaths(m)[3]]) = 2
            /\ first = 4 => SectionCount(files[CandidatePaths(m)[4]]) = 3

\* A service file of three sections has made a load of a _Response throw.
C12_Witness ==
  /\ pc = "threw"
  /\ error = "MalformedService"
  /\ call.datatype = <<"p", "/", "S", "_", "R", "e", "s", "p", "o", "n", "s", "e">>
  /\ SrvPath(<<"p">>, <<"S">>) \in DOMAIN files
  /\ SectionCount(files[SrvPath(<<"p">>, <<"S">>)]) = 3

(***************************************************************************)
(* C13. The file of package p and type T is the first that exists of       *)
(* msg/T.msg, srv/T.msg, srv/base.srv and action/base.action; the first    *)
(* two give the whole file as the text; without any of them the call       *)
(* throws NotFound.                                                        *)
(***************************************************************************)
C13_SearchOrder ==
  /\ \A d \in DOMAIN msg_specs_by_datatype_ :
        LET m == MSG_DATATYPE_REGEX(d)
            first == FirstExisting(m)
            content == files[CandidatePaths(m)[first]]
            text == msg_specs_by_datatype_[d].text
        IN  /\ first # 0
            /\ first \in {1, 2} => text = content
            /\ first \in {3, 4} => text = <<>> \/ StrFind(content, text, 1) # 0
  /\ LoadDone =>
        LET m == MSG_DATATYPE_REGEX(call.datatype)
            first == FirstExisting(m)
        IN  (m.matched /\ m.package \in installed)
              => /\ first = 0 <=> (pc = "threw" /\ error = "NotFound")
                 /\ first \in {1, 2} => /\ pc = "returned"
                                         /\ returned.spec.text = files[CandidatePaths(m)[first]]

\* With all four files present, S_Request has the message file as its text.
C13_Witness ==
  /\ \A i \in 1..4 : CandidatePaths(MSG_DATATYPE_REGEX(<<"p", "/", "S", "_", "R", "e", "q", "u", "e", "s", "t">>))[i] \in DOMAIN files
  /\ <<"p", "/", "S", "_", "R", "e", "q", "u", "e", "s", "t">> \in DOMAIN msg_specs_by_datatype_
  /\ msg_specs_by_datatype_[<<"p", "/", "S", "_", "R", "e", "q", "u", "e", "s", "t">>].text = MessageFile

\* The places of content where a delimiter starts.
DelimiterPlaces(content) == {i \in 1..Len(content) : OccursAt(content, delimiter, i)}

\* Section k (from 0) of a file whose delimiters do not touch: what lies
\* between delimiter k and delimiter k + 1, the ends of the file counting as
\* delimiters.
SectionOf(content, k) ==
  LET places == DelimiterPlaces(content)
      before == {i \in places : Cardinality({j \in places : j < i}) = k - 1}
      after == {i \in places : Cardinality({j \in places : j < i}) = k}
  IN  SubSeq(content,
             IF before = {} THEN 1 ELSE (CHOOSE i \in before : TRUE) + Len(delimiter),
             IF after = {} THEN Len(content) ELSE (CHOOSE i \in after : TRUE) - 1)

\* The section of the three-section action file that backs d if d's type is
\* base and the selector, <<"none">> otherwise.
ActionTextAsClaimed(d, selector, k) ==
  LET m == MSG_DATATYPE_REGEX(d)
      content == files[CandidatePaths(m)[4]]
  IN  IF /\ m.matched
         /\ EndsWith(m.type, selector)
         /\ BaseOf(m.type) \o selector = m.type
         /\ FirstExisting(m) = 4
         /\ SectionCount(content) = 3
        THEN SectionOf(content, k)
        ELSE <<"none">>

(***************************************************************************)
(* C14. Backed by a three-section action file, the cached base_Goal,       *)
(* base_Result and base_Feedback have sections 0, 1 and 2 of the file as   *)
(* their text, each under its own key.                                     *)
(***************************************************************************)
C14_ActionSections ==
  \A d \in DOMAIN msg_specs_by_datatype_ :
    \A k \in 0..2 :
      LET claimed == ActionTextAsClaimed(d, <<<<"_", "G", "o", "a", "l">>, <<"_", "R", "e", "s", "u", "l", "t">>, <<"_", "F", "e", "e", "d", "b", "a", "c", "k">>>>[k + 1], k)
      IN  claimed # <<"none">> => msg_specs_by_datatype_[d].text = claimed

\* The three schemas of the action N are cached together, each with its
\* section.
C14_Witness ==
  /\ ActionPath(<<"p">>, <<"N">>) \in DOMAIN files
  /\ {<<"p", "/", "N", "_", "G", "o", "a", "l">>, <<"p", "/", "N", "_", "R", "e", "s", "u", "l", "t">>, <<"p", "/", "N", "_", "F", "e", "e", "d", "b", "a", "c", "k">>} \subseteq DOMAIN msg_specs_by_datatype_
  /\ msg_specs_by_datatype_[<<"p", "/", "N", "_", "G", "o", "a", "l">>].text = <<"A", " ", "g", "\n">>
  /\ msg_specs_by_datatype_[<<"p", "/", "N", "_", "R", "e", "s", "u", "l", "t">>].text = <<"\n", "b", "o", "o", "l", " ", "r", "\n">>
  /\ msg_specs_by_datatype_[<<"p", "/", "N", "_", "F", "e", "e", "d", "b", "a", "c", "k">>].text = <<"\n", "i", "n", "t", "8", " ", "f", "\n">>

\* A letter, a digit or the underscore.
IsNameChar(c) ==
  \/ c = "_"
  \/ CharCode[c] \in 48..57
  \/ CharCode[c] \in 65..90
  \/ CharCode[c] \in 97..122

IsName(s) == s # <<>> /\ \A i \in 1..Len(s) : IsNameChar(s[i])

\* What follows the package and its '/': a type, after "msg/", "srv/" or
\* "action/" or after nothing.
TypeAfterInfix(rest) ==
  IF \E infix \in {<<"m", "s", "g", "/">>, <<"s", "r", "v", "/">>, <<"a", "c", "t", "i", "o", "n", "/">>} : IsPrefix(infix, rest) /\ IsName(SubSeq(rest, Len(infix) + 1, Len(rest)))
    THEN LET infix == CHOOSE x \in {<<"m", "s", "g", "/">>, <<"s", "r", "v", "/">>, <<"a", "c", "t", "i", "o", "n", "/">>} : IsPrefix(x, rest)
         IN  SubSeq(rest, Len(infix) + 1, Len(rest))
    ELSE rest

\* d read as package '/' [ 'msg/' | 'srv/' | 'action/' ] type: the package is
\* what precedes the first '/'.
ShapeOf(d) ==
  LET slash == StrFind(d, <<"/">>, 1)
      package == SubSeq(d, 1, slash - 1)
      type == TypeAfterInfix(SubSeq(d, slash + 1, Len(d)))
  IN  IF slash # 0 /\ IsName(package) /\ IsName(type)
        THEN [valid |-> TRUE, package |-> package, type |-> type]
        ELSE [valid |-> FALSE, package |-> <<>>, type |-> <<>>]

(***************************************************************************)
(* C15. load_message_spec of an uncached string that is not of the shape   *)
(* package '/' [ 'msg/' | 'srv/' | 'action/' ] type throws InvalidName     *)
(* with no package lookup and no file read, and leaves the cache as it     *)
(* was.                                                                    *)
(***************************************************************************)
C15_InvalidNameFirst ==
  /\ []((LoadDone /\ ~ShapeOf(call.datatype).valid)
          => /\ pc = "threw"
             /\ error = "InvalidName"
             /\ lookups = 0
             /\ call.datatype \notin DOMAIN reads
             /\ call.datatype \notin DOMAIN msg_specs_by_datatype_)
  /\ [][(calls' = calls + 1 /\ error' = "InvalidName")
          => /\ msg_specs_by_datatype_' = msg_specs_by_datatype_
             /\ reads' = reads]_vars

\* A name with an unknown infix has been refused, on a cache that holds an
\* entry.
C15_Witness ==
  /\ pc = "threw"
  /\ error = "InvalidName"
  /\ call.datatype = <<"p", "/", "x", "/", "S", "_", "R", "e", "q", "u", "e", "s", "t">>
  /\ DOMAIN msg_specs_by_datatype_ # {}

\* The lines of a text.
RECURSIVE LinesOf(_)
LinesOf(text) ==
  IF text = <<>> THEN <<>>
  ELSE LET nl == StrFind(text, <<"\n">>, 1)
       IN  IF nl = 0 THEN <<text>>
           ELSE <<SubSeq(text, 1, nl - 1)>> \o LinesOf(SubSeq(text, nl + 1, Len(text)))

\* The field type of a line "type name" or "type[...] name": what precedes the
\* first space or '['.
FieldTypeOf(line) ==
  SubSeq(line, 1, LeastOr0({i \in 1..Len(line) : line[i] \in {" ", "["}}) - 1)

\* The field types of a text whose lines are fields, a delimiter or empty.
FieldTypesOf(text) ==
  {FieldTypeOf(LinesOf(text)[i]) : i \in DOMAIN LinesOf(text)} \ {<<>>}

PrimitiveNames ==
  { <<"b", "o", "o", "l">>, <<"b", "y", "t", "e">>, <<"c", "h", "a", "r">>, <<"f", "l", "o", "a", "t", "3", "2">>, <<"f", "l", "o", "a", "t", "6", "4">>, <<"i", "n", "t", "8">>, <<"u", "i", "n", "t", "8">>,
    <<"i", "n", "t", "1", "6">>, <<"u", "i", "n", "t", "1", "6">>, <<"i", "n", "t", "3", "2">>, <<"u", "i", "n", "t", "3", "2">>, <<"i", "n", "t", "6", "4">>, <<"u", "i", "n", "t", "6", "4">>, <<"s", "t", "r", "i", "n", "g">> }

Qualified(token, package) ==
  IF \E i \in 1..Len(token) : token[i] = "/" THEN token ELSE package \o <<"/">> \o token

(***************************************************************************)
(* C16. The dependencies of a cached schema are the field types of its     *)
(* text that are no primitive, those without '/' prefixed with the package *)
(* of the datatype and '/': none is a primitive, each holds a '/'.         *)
(***************************************************************************)
C16_DependenciesQualified ==
  \A d \in DOMAIN msg_specs_by_datatype_ :
    LET entry == msg_specs_by_datatype_[d]
        package == ShapeOf(d).package
    IN  /\ entry.dependencies \cap PrimitiveNames = {}
        /\ \A dep \in entry.dependencies : \E i \in 1..Len(dep) : dep[i] = "/"
        /\ entry.dependencies =
             {Qualified(token, package) : token \in FieldTypesOf(entry.text) \ PrimitiveNames}

\* The schema of the message file is cached: arrays of primitives, a type of
\* the same package and a type of another one.
C16_Witness ==
  /\ <<"p", "/", "S", "_", "R", "e", "q", "u", "e", "s", "t">> \in DOMAIN msg_specs_by_datatype_
  /\ msg_specs_by_datatype_[<<"p", "/", "S", "_", "R", "e", "q", "u", "e", "s", "t">>].text = MessageFile
  /\ msg_specs_by_datatype_[<<"p", "/", "S", "_", "R", "e", "q", "u", "e", "s", "t">>].dependencies = {<<"p", "/", "A">>, <<"q", "/", "B">>}

(***************************************************************************)
(* C17. A valid datatype string is read as its package and its type, the   *)
(* infix dropped: names that differ by the infix only are resolved from    *)
(* the same file, to the same text and dependencies, or fail alike.        *)
(***************************************************************************)
C17_InfixDiscarded ==
  /\ \A d \in ResolveRequests :
       ShapeOf(d).valid =>
         /\ MSG_DATATYPE_REGEX(d).matched
         /\ MSG_DATATYPE_REGEX(d).package = ShapeOf(d).package
         /\ MSG_DATATYPE_REGEX(d).type = ShapeOf(d).type
  /\ \A d, e \in DOMAIN msg_specs_by_datatype_ :
       (ShapeOf(d).package = ShapeOf(e).package /\ ShapeOf(d).type = ShapeOf(e).type)
         => msg_specs_by_datatype_[d] = msg_specs_by_datatype_[e]
  /\ (LoadDone /\ pc = "threw") =>
       \A e \in DOMAIN msg_specs_by_datatype_ :
         ~(/\ ShapeOf(call.datatype).valid
           /\ ShapeOf(call.datatype).package = ShapeOf(e).package
           /\ ShapeOf(call.datatype).type = ShapeOf(e).type)

\* The same type is cached under a name with an infix and under one without.
C17_Witness ==
  /\ {<<"p", "/", "S", "_", "R", "e", "q", "u", "e", "s", "t">>, <<"p", "/", "a", "c", "t", "i", "o", "n", "/", "S", "_", "R", "e", "q", "u", "e", "s", "t">>} \subseteq DOMAIN msg_specs_by_datatype_
  /\ msg_specs_by_datatype_[<<"p", "/", "a", "c", "t", "i", "o", "n", "/", "S", "_", "R", "e", "q", "u", "e", "s", "t">>].text # <<>>
  /\ msg_specs_by_datatype_[<<"p", "/", "a", "c", "t", "i", "o", "n", "/", "S", "_", "R", "e", "q", "u", "e", "s", "t">>].dependencies # {}

(***************************************************************************)
(* The document of a root as the files alone determine it.                 *)
(***************************************************************************)

\* The schema a resolution of d from the files yields.
FreshSchema(d) ==
  LET loc == LocateContents(files, installed, d)
  IN  MessageSpec(loc.contents, loc.package)

\* The names of set from the least to the greatest.
RECURSIVE InOrder(_)
InOrder(set) ==
  IF set = {} THEN <<>>
  ELSE LET first == CHOOSE a \in set : \A b \in set : a = b \/ StrLess(a, b)
       IN  <<first>> \o InOrder(set \ {first})

\* The walk from d on an empty cache: walk.order lists the datatypes in the
\* order they are entered, walk.seen holds those met.
RECURSIVE FreshVisit(_, _)
RECURSIVE FreshLoop(_, _, _)
FreshVisit(d, walk) ==
  FreshLoop(InOrder(FreshSchema(d).dependencies), 1,
            [order |-> Append(walk.order, d), seen |-> walk.seen])

FreshLoop(deps, i, walk) ==
  IF i > Len(deps) THEN walk
  ELSE IF deps[i] \in walk.seen THEN FreshLoop(deps, i + 1, walk)
  ELSE FreshLoop(deps, i + 1,
                 FreshVisit(deps[i], [walk EXCEPT !.seen = @ \cup {deps[i]}]))

FreshOrder(root) == FreshVisit(root, [order |-> <<>>, seen |-> {root}]).order

\* The document of root: the text of root, then a block for every further
\* datatype of the walk.
FreshText(root) ==
  Concat([i \in DOMAIN FreshOrder(root) |->
            (IF i = 1 THEN <<>> ELSE BlockHead(FreshOrder(root)[i]))
              \o FreshSchema(FreshOrder(root)[i]).text])

(***************************************************************************)
(* C18. With the files unchanged, the document get_full_text(root) returns *)
(* is the one a walk of the files from root on an empty cache yields,      *)
(* whatever earlier calls left in the cache, and equals the document       *)
(* returned for root before.                                               *)
(***************************************************************************)
C18_FunctionOfRoot ==
  /\ [](FullTextReturned => returned.text = FreshText(call.datatype))
  /\ [][(pc = "running" /\ pc' = "returned" /\ call.datatype \in DOMAIN full_texts)
          => returned'.text = full_texts[call.datatype]]_vars

\* A second call has returned a document of three schemas or more, some of
\* which an earlier call had cached and some of which it had not.
C18_Witness ==
  /\ FullTextReturned
  /\ calls = 2
  /\ Len(visits) >= 3
  /\ lookups >= 1
  /\ lookups < Len(visits)

(***************************************************************************)
(* Calls repeated after the file system has changed.                       *)
(***************************************************************************)

\* The datatype whose resolution made the last call throw.
FailedDatatype ==
  IF call.op = "get_full_text" THEN visits[Len(visits)] ELSE call.datatype

\* The package of the name is installed and the message file of its type
\* is written.
InstalledFor(m) ==
  /\ installed' = installed \cup {m.package}
  /\ files' = files @@ (MsgPath(m.package, m.type) :> <<"i", "n", "t", "3", "2", " ", "n", "\n">>)

\* Between two calls, after one that failed for a missing package or a
\* missing file: what was missing is installed.
Install ==
  /\ pc = "threw"
  /\ error \in {"NotFound", "PackageNotFound"}
  /\ InstalledFor(MSG_DATATYPE_REGEX(FailedDatatype))
  /\ pc' = "idle"
  /\ error' = "none"
  /\ UNCHANGED <<other, msg_specs_by_datatype_, call, returned, result, seen_deps,
                 stack, visits, lookups, reads, full_texts, calls>>

RetryInit == Init /\ files \in {BrokenFiles, ContainerFiles, DiamondFiles, EmptyFiles}

RetryNext == Next \/ Install

RetrySpec == RetryInit /\ [][RetryNext]_vars

(***************************************************************************)
(* C19. A failure is not remembered: a call throws for a missing package   *)
(* or file only if the files as they are now make it fail, so the call     *)
(* repeated after the install looks up, reads and succeeds; the entries    *)
(* inserted before a failure stay, and every entry equals the schema a     *)
(* resolution of its datatype from the files yields.                       *)
(***************************************************************************)
C19_FailuresNotMemoized ==
  /\ [](\A d \in DOMAIN msg_specs_by_datatype_ :
          /\ LocateContents(files, installed, d).error = "none"
          /\ msg_specs_by_datatype_[d] = FreshSchema(d)
          /\ d \in DOMAIN reads)
  /\ []((pc = "threw" /\ call.op \in {"load_message_spec", "get_full_text"})
          => /\ error = LocateContents(files, installed, FailedDatatype).error
             /\ FailedDatatype \notin DOMAIN msg_specs_by_datatype_)
  /\ []((LoadDone /\ LocateContents(files, installed, call.datatype).error = "none")
          => /\ pc = "returned"
             /\ returned.spec = FreshSchema(call.datatype))
  /\ []((FullTextReturned \/ (pc = "threw" /\ call.op = "get_full_text"))
          => (pc = "returned" <=>
                \A d \in FileReach(call.datatype) :
                  LocateContents(files, installed, d).error = "none"))
  /\ [][\A d \in DOMAIN msg_specs_by_datatype_ :
          /\ d \in DOMAIN msg_specs_by_datatype_'
          /\ msg_specs_by_datatype_'[d] = msg_specs_by_datatype_[d]]_vars

\* get_full_text(p/A) has returned after package q was installed: A and B
\* came from the cache, where the call that failed had left them, and q/X
\* was looked up.
C19_Witness ==
  /\ FullTextReturned
  /\ call.datatype = <<"p", "/", "A">>
  /\ <<"q">> \in installed
  /\ visits = << <<"p", "/", "A">>, <<"p", "/", "B">>, <<"q", "/", "X">> >>
  /\ lookups = 1

(***************************************************************************)
(* Two callers on one cache. The code takes no lock: a second caller's     *)
(* load_message_spec runs its find, its search of the files and its        *)
(* emplace at any moment of the first caller's calls.                      *)
(***************************************************************************)

\* The second caller enters load_message_spec(datatype): the find of line 77.
\* On a hit it returns at once.
OtherFind(datatype) ==
  /\ other.at = "idle"
  /\ calls < MaxCalls
  /\ calls' = calls + 1
  /\ other' = IF CacheFind(msg_specs_by_datatype_, datatype)
                THEN NoOther
                ELSE [at |-> "missed", datatype |-> datatype, loc |-> NoOther.loc]
  /\ UNCHANGED <<files, installed, msg_specs_by_datatype_, pc, call, error,
                 returned, result, seen_deps, stack, visits, lookups, reads,
                 full_texts>>

OtherLocated(loc) ==
  /\ other' = IF loc.error # "none" THEN NoOther ELSE [other EXCEPT !.at = "located", !.loc = loc]
  /\ reads' = CountRead(loc, other.datatype)

\* After its miss the second caller matches the name, looks the package up
\* and reads the file; an exception ends its call.
OtherLocate ==
  /\ other.at = "missed"
  /\ OtherLocated(LocateContents(files, installed, other.datatype))
  /\ UNCHANGED <<files, installed, msg_specs_by_datatype_, pc, call, error,
                 returned, result, seen_deps, stack, visits, lookups,
                 full_texts, calls>>

\* What the second caller's emplace leaves in the map. While a get_full_text
\* of the first caller is in progress its accesses to the map can overlap the
\* emplace, a data race: the insertion takes effect or is lost.
EmplaceOutcomes(cache, datatype, spec) ==
  IF pc = "running"
    THEN {Emplace(cache, datatype, spec), cache}
    ELSE {Emplace(cache, datatype, spec)}

\* The second caller's emplace and return.
OtherEmplace ==
  /\ other.at = "located"
  /\ msg_specs_by_datatype_' \in
       EmplaceOutcomes(msg_specs_by_datatype_, other.datatype,
                       MessageSpec(other.loc.contents, other.loc.package))
  /\ other' = NoOther
  /\ UNCHANGED <<files, installed, pc, call, error, returned, result,
                 seen_deps, stack, visits, lookups, reads, full_texts, calls>>

ConcurrentInit == Init /\ files \in {DiamondFiles, CycleFiles, BrokenFiles}

ConcurrentNext ==
  \/ Next
  \/ \E datatype \in {<<"p", "/", "A">>, <<"p", "/", "B">>} : OtherFind(datatype)
  \/ OtherLocate
  \/ OtherEmplace

ConcurrentSpec == ConcurrentInit /\ [][ConcurrentNext]_vars

\* C20: with two callers the lookup-or-insert is serialized: no datatype is
\* located and parsed twice, and the second caller does not change the map
\* while a get_full_text of the first is in progress.
C20_Serialized ==
  /\ [](\A d \in DOMAIN reads : reads[d] <= 1)
  /\ [][(pc = "running" /\ other' # other)
          => msg_specs_by_datatype_' = msg_specs_by_datatype_]_vars
=============================================================================
